---- MODULE Spec2Model ----
(***************************************************************************)
(* Model of the two utilities of the repository:                           *)
(*   claude_settings_merger.py  (load_json_file, merge_permission_lists,   *)
(*                               merge_settings_files, main)               *)
(*   md_to_json_converter.py    (parse_markdown_file,                      *)
(*                               create_permissions_json, process_file,    *)
(*                               main)                                     *)
(* Every behaviour is one invocation scenario, selected by `mode`:         *)
(*   "merge_fn"   a call of merge_settings_files on loadable files         *)
(*   "extract_fn" parse_markdown_file, then create_permissions_json, then  *)
(*                the emitted file merged as sole input                    *)
(*   "emit_fn"    create_permissions_json on an arbitrary pattern list,    *)
(*                then the emitted file merged as sole input               *)
(*   "merger_cli" runs of claude_settings_merger.main                      *)
(*   "batch_cli"  a run of md_to_json_converter.main                       *)
(***************************************************************************)
EXTENDS Integers, Sequences, FiniteSets, TLC

VARIABLES
  mode,            \* the scenario of this behaviour
  pc,              \* position of the running function or utility
  fs,              \* the file system: path -> content
  fs0,             \* the file system when the current run started
  args,            \* parsed command line of the merger
  unique_files,    \* files handed to merge_settings_files
  arg_lists,       \* argument of a direct merge_permission_lists call
  settings_list,   \* loaded top-level dicts
  heap,            \* the permissions objects the dicts refer to
  merged,          \* the dict merge_settings_files returns
  patterns,        \* result of parse_markdown_file / merge_permission_lists
  emitted,         \* result of create_permissions_json
  markdown_files,  \* result of glob.glob('gh-*.md')
  sorted_files,    \* sorted(markdown_files), the list the loop runs over
  created_files,   \* created_files of the converter's main
  idx,             \* loop position in sorted(markdown_files)
  stdout, stderr,  \* what the process printed on each stream
  exit_code,       \* -1 while running
  runs             \* number of merger runs started

vars == <<mode, pc, fs, fs0, args, unique_files, arg_lists, settings_list, heap,
          merged, patterns, emitted, markdown_files, sorted_files,
          created_files, idx, stdout, stderr, exit_code, runs>>

(***************************************************************************)
(* Bounds                                                                  *)
(***************************************************************************)
MaxDocs == 2
MaxAllowLen == 1
MaxLists == 2
MaxListLen == 2
MaxPatterns == 3
MaxLines == 2
MaxBak == 1
MaxRuns == 2

(***************************************************************************)
(* Generic helpers                                                         *)
(***************************************************************************)
SeqsUpTo(S, n) == UNION {[1..k -> S] : k \in 0..n}

Range(s) == {s[i] : i \in DOMAIN s}

NoDuplicates(s) == \A i, j \in DOMAIN s : s[i] = s[j] => i = j

(***************************************************************************)
(* Documents.  A parsed JSON object is a record                            *)
(*   fields      : the top-level keys other than "permissions"             *)
(*   permissions : <<>> when the key is missing, <<d>> when present, d a   *)
(*                 function from a subset of {"allow","deny"} to lists     *)
(* A file is [kind, doc, lines, fmt, perm]; kind tells what it holds:       *)
(*   "missing"    no such file                                             *)
(*   "json"       JSON text of doc[1], laid out as fmt says                *)
(*   "invalid"    text that json.load rejects and that has no bullet line  *)
(*   "text"       a text, lines without their line ends (the empty file    *)
(*                has no line)                                             *)
(* and perm what open() may do with it: "rw", "r" (open(..., 'w') raises   *)
(* PermissionError) or "w" (open(..., 'r') raises PermissionError).        *)
(***************************************************************************)
PermKeys == {"allow", "deny"}

Missing ==
  [kind |-> "missing", doc |-> <<>>, lines |-> <<>>, fmt |-> "", perm |-> ""]

\* the text {"permissions":<space> : json.load raises JSONDecodeError
Invalid ==
  [kind |-> "invalid", doc |-> <<>>,
   lines |-> << <<123, 34, 112, 101, 114, 109, 105, 115, 115, 105, 111, 110,
                  115, 34, 58, 32>> >>,
   fmt |-> "", perm |-> "rw"]

\* an empty file that cannot be opened for reading
Unreadable ==
  [kind |-> "text", doc |-> <<>>, lines |-> <<>>, fmt |-> "", perm |-> "w"]

\* an empty file that cannot be opened for writing
ReadOnly ==
  [kind |-> "text", doc |-> <<>>, lines |-> <<>>, fmt |-> "", perm |-> "r"]

JsonText(d, fmt) ==
  [kind |-> "json", doc |-> <<d>>, lines |-> <<>>, fmt |-> fmt, perm |-> "rw"]

JsonFile(d) == JsonText(d, "indent=2")

TextFile(ls) ==
  [kind |-> "text", doc |-> <<>>, lines |-> ls, fmt |-> "", perm |-> "rw"]

Exists(f, p) == p \in DOMAIN f /\ f[p].kind # "missing"

\* open(p, 'r') succeeds on the existing file p
Readable(f, p) == Exists(f, p) /\ f[p].perm \in {"rw", "r"}

\* open(p, 'w') succeeds: p is new or may be written
Writable(f, p) == ~Exists(f, p) \/ f[p].perm \in {"rw", "w"}

\* open(p, 'w') and the writes: the content is replaced, an existing file
\* keeps its permissions
WriteFile(f, p, content) ==
  [q \in DOMAIN f \cup {p} |->
     IF q = p
       THEN [content EXCEPT !.perm = IF Exists(f, p) THEN f[p].perm ELSE "rw"]
     ELSE f[q]]

\* shutil.copy2(src, dst): content and permission bits
CopyFile(f, src, dst) ==
  [q \in DOMAIN f \cup {dst} |-> IF q = dst THEN f[src] ELSE f[q]]

\* the lines a reader of the file gets.  No line of the dump of a JSON
\* object is a bullet line (stripped, each starts with one of { } [ ] ");
\* they are not kept.
text_lines(content) == IF content.kind = "json" THEN <<>> ELSE content.lines

(***************************************************************************)
(* load_json_file: the parsed document, or the failure that ends the       *)
(* process with exit code 1 and one message on the error stream.           *)
(***************************************************************************)
load_json_file(f, filepath) ==
  IF ~Exists(f, filepath)
    THEN [ok |-> FALSE, doc |-> <<>>,
          err |-> <<"Error: File not found", filepath>>]
  ELSE IF ~Readable(f, filepath)
    THEN [ok |-> FALSE, doc |-> <<>>,
          err |-> <<"Error reading", filepath>>]
  ELSE IF f[filepath].kind = "json"
    THEN [ok |-> TRUE, doc |-> f[filepath].doc, err |-> <<>>]
  ELSE [ok |-> FALSE, doc |-> <<>>,
        err |-> <<"Error: Invalid JSON in", filepath>>]

(***************************************************************************)
(* merge_permission_lists: seen set + result list, lists in argument       *)
(* order, items in list order.                                             *)
(***************************************************************************)
\* Mutant: the `if item not in seen` test is lost.
merge_items_all(permission_list, seen, result) ==
  [seen |-> seen \cup Range(permission_list),
   result |-> result \o permission_list]

\* Mutant: new items are put in front of the result.
RECURSIVE merge_items_prepend(_, _, _)
merge_items_prepend(permission_list, seen, result) ==
  IF permission_list = <<>> THEN [seen |-> seen, result |-> result]
  ELSE LET item == Head(permission_list) IN
       IF item \notin seen
         THEN merge_items_prepend(Tail(permission_list), seen \cup {item},
                                  <<item>> \o result)
         ELSE merge_items_prepend(Tail(permission_list), seen, result)

RECURSIVE merge_items(_, _, _)
merge_items(permission_list, seen, result) ==
  IF permission_list = <<>> THEN [seen |-> seen, result |-> result]
  ELSE LET item == Head(permission_list) IN
       IF item \notin seen
         THEN merge_items(Tail(permission_list), seen \cup {item},
                          Append(result, item))
         ELSE merge_items(Tail(permission_list), seen, result)

RECURSIVE merge_lists_from(_, _, _)
merge_lists_from(lists, seen, result) ==
  IF lists = <<>> THEN result
  ELSE LET r == merge_items(Head(lists), seen, result)
       IN merge_lists_from(Tail(lists), r.seen, r.result)

merge_permission_lists(lists) == merge_lists_from(lists, {}, <<>>)

(***************************************************************************)
(* Loading.  json.load builds fresh objects: every loaded document that    *)
(* has a "permissions" object gets its own cell in `heap`, and the loaded  *)
(* top-level dict refers to the cell.  Two dicts that hold the same cell   *)
(* share the permissions object.                                           *)
(***************************************************************************)
RECURSIVE load_all(_, _, _, _)
load_all(f, files, sl, hp) ==
  IF files = <<>>
    THEN [ok |-> TRUE, err |-> <<>>, settings_list |-> sl, heap |-> hp]
  ELSE LET r == load_json_file(f, Head(files)) IN
       IF ~r.ok
         THEN [ok |-> FALSE, err |-> r.err, settings_list |-> sl, heap |-> hp]
       ELSE LET d == r.doc[1] IN
            IF d.permissions = <<>>
              THEN load_all(f, Tail(files),
                            Append(sl, [fields |-> d.fields,
                                        permissions |-> <<>>]), hp)
              ELSE load_all(f, Tail(files),
                            Append(sl, [fields |-> d.fields,
                                        permissions |-> <<Len(hp) + 1>>]),
                            Append(hp, d.permissions[1]))

\* The value of a dict object: its permissions cell read through the heap.
Deref(hp, obj) ==
  [fields |-> obj.fields,
   permissions |-> IF obj.permissions = <<>> THEN <<>>
                   ELSE <<hp[obj.permissions[1]]>>]

\* d[k] = v on a dict
SetKey(d, k, v) == [x \in DOMAIN d \cup {k} |-> IF x = k THEN v ELSE d[x]]

\* settings.get('permissions', {})
GetPermissions(hp, settings) ==
  IF settings.permissions = <<>> THEN <<>> ELSE hp[settings.permissions[1]]

\* lines 63-68: the lists named `key` of the documents that define one
RECURSIVE collect_from(_, _, _)
collect_from(hp, sl, key) ==
  IF sl = <<>> THEN <<>>
  ELSE LET permissions == GetPermissions(hp, Head(sl)) IN
       IF key \in DOMAIN permissions
         THEN <<permissions[key]>> \o collect_from(hp, Tail(sl), key)
         ELSE collect_from(hp, Tail(sl), key)

\* Mutant: the loop runs over settings_list[1:], the base document left out.
collect_lists_rest(hp, sl, key) == collect_from(hp, Tail(sl), key)

collect_lists(hp, sl, key) == collect_from(hp, sl, key)

\* Mutant: merged.update(settings) for every document, later values winning.
RECURSIVE base_fields_updated(_)
base_fields_updated(sl) ==
  IF Len(sl) = 1 THEN sl[1].fields
  ELSE sl[Len(sl)].fields @@ base_fields_updated(SubSeq(sl, 1, Len(sl) - 1))

\* line 57: merged = settings_list[0].copy(), the top-level fields
base_fields(sl) == sl[1].fields

(***************************************************************************)
(* merge_settings_files after the loads (lines 56-77): merged is a shallow *)
(* copy of settings_list[0], so it holds the same permissions cell; the    *)
(* two assignments write into that cell.                                   *)
(***************************************************************************)
merge_loaded(sl, hp) ==
  LET base        == sl[1]
      allow_lists == collect_lists(hp, sl, "allow")
      deny_lists  == collect_lists(hp, sl, "deny")
      hp1         == IF base.permissions = <<>> THEN Append(hp, <<>>) ELSE hp
      cell        == IF base.permissions = <<>> THEN Len(hp) + 1
                     ELSE base.permissions[1]
      withAllow   == SetKey(hp1[cell], "allow",
                            merge_permission_lists(allow_lists))
      withDeny    == SetKey(withAllow, "deny",
                            merge_permission_lists(deny_lists))
  IN [merged |-> [fields |-> base_fields(sl), permissions |-> <<cell>>],
      heap   |-> [hp1 EXCEPT ![cell] = withDeny]]

(***************************************************************************)
(* Text.  A line is the sequence of the code points of its characters      *)
(* (42 '*', 45 '-', 43 '+', 32 ' ', 9 TAB, 96 backtick, 97 'a', 98 'b').   *)
(***************************************************************************)
\* the code points str.strip() removes and \s matches (str.isspace): the
\* ASCII ones and U+0085, U+00A0, U+1680, U+2000..U+200A, U+2028, U+2029,
\* U+202F, U+205F, U+3000
WhiteSpace ==
  {9, 10, 11, 12, 13, 28, 29, 30, 31, 32, 133, 160, 5760} \cup (8192..8202)
    \cup {8232, 8233, 8239, 8287, 12288}

BulletMarkers == {42, 45}

BackTick == {96}

\* Mutant: the line is matched as read, without .strip().
no_strip(s) == s

RECURSIVE lstrip(_)
lstrip(s) ==
  IF s # <<>> /\ Head(s) \in WhiteSpace THEN lstrip(Tail(s)) ELSE s

RECURSIVE rstrip(_)
rstrip(s) ==
  IF s # <<>> /\ s[Len(s)] \in WhiteSpace
    THEN rstrip(SubSeq(s, 1, Len(s) - 1)) ELSE s

\* line.strip()
strip(s) == rstrip(lstrip(s))

\* the first index >= i of s whose character is not in S, Len(s) + 1 if none
RECURSIVE span_end(_, _, _)
span_end(s, i, S) ==
  IF i <= Len(s) /\ s[i] \in S THEN span_end(s, i + 1, S) ELSE i

(***************************************************************************)
(* re.match(r'^[\*\-]\s+`([^`]+)`', s): <<>> when there is no match,       *)
(* <<group(1)>> when there is one.                                         *)
(***************************************************************************)
bullet_match(s) ==
  IF s = <<>> \/ Head(s) \notin BulletMarkers THEN <<>>
  ELSE LET open == span_end(s, 2, WhiteSpace) IN
       IF open = 2 \/ open > Len(s) \/ s[open] \notin BackTick THEN <<>>
       ELSE LET close == span_end(s, open + 1,
                                  Range(s) \ BackTick) IN
            IF close = open + 1 \/ close > Len(s) THEN <<>>
            ELSE <<SubSeq(s, open + 1, close - 1)>>

\* the loop of parse_markdown_file, lines 22-27
RECURSIVE parse_lines(_)
parse_lines(ls) ==
  IF ls = <<>> THEN <<>>
  ELSE bullet_match(strip(Head(ls))) \o parse_lines(Tail(ls))

\* parse_markdown_file(filepath): the patterns, or the exception of open()
parse_markdown_file(f, filepath) ==
  IF ~Exists(f, filepath)
    THEN [ok |-> FALSE, patterns |-> <<>>, err |-> "No such file or directory"]
  ELSE IF ~Readable(f, filepath)
    THEN [ok |-> FALSE, patterns |-> <<>>, err |-> "Permission denied"]
  ELSE [ok |-> TRUE, patterns |-> parse_lines(text_lines(f[filepath])),
        err |-> ""]

\* the loop of create_permissions_json, lines 35-40
RECURSIVE unique_permissions(_, _, _)
unique_permissions(perms, seen, unique) ==
  IF perms = <<>> THEN unique
  ELSE IF Head(perms) \notin seen
    THEN unique_permissions(Tail(perms), seen \cup {Head(perms)},
                            Append(unique, Head(perms)))
    ELSE unique_permissions(Tail(perms), seen, unique)

\* create_permissions_json(patterns), lines 32-47
create_permissions_json(pats) ==
  [fields |-> <<>>,
   permissions |-> <<[allow |-> unique_permissions(pats, {}, <<>>),
                      deny |-> <<>>]>>]

(***************************************************************************)
(* Paths are strings.                                                      *)
(***************************************************************************)
Char(s, i) == SubSeq(s, i, i)

\* s.rfind('.') + 1, 0 when s has no dot
RECURSIVE rfind_dot(_, _)
rfind_dot(s, i) ==
  IF i = 0 THEN 0
  ELSE IF Char(s, i) = "." THEN i ELSE rfind_dot(s, i - 1)

StartsWith(s, pre) == Len(s) >= Len(pre) /\ SubSeq(s, 1, Len(pre)) = pre

EndsWith(s, suf) ==
  Len(s) >= Len(suf) /\ SubSeq(s, Len(s) - Len(suf) + 1, Len(s)) = suf

\* the number of leading dots of a file name
RECURSIVE leading_dots(_, _)
leading_dots(s, i) ==
  IF i <= Len(s) /\ Char(s, i) = "." THEN leading_dots(s, i + 1) ELSE i - 1

\* os.path.splitext(p)[0] of a file name without directory part
splitext_root(p) ==
  LET dot == rfind_dot(p, Len(p)) IN
  IF dot > leading_dots(p, 1) + 1
    THEN SubSeq(p, 1, dot - 1) ELSE p

\* PurePath.suffix of a file name
path_suffix(name) ==
  LET dot == rfind_dot(name, Len(name)) IN
  IF 1 < dot /\ dot < Len(name) THEN SubSeq(name, dot, Len(name)) ELSE ""

\* PurePath.with_suffix(suffix) on a file name
with_suffix(name, suffix) ==
  LET old == path_suffix(name) IN
  IF old = "" THEN name \o suffix
  ELSE SubSeq(name, 1, Len(name) - Len(old)) \o suffix

(***************************************************************************)
(* Input domains of the function-level scenarios                           *)
(***************************************************************************)
Patterns == {"a", "b"}

ListItems == {"a", "b", "c"}

OtherKeys == {"model"}

Values == {"v1", "v2"}

AllowLists == SeqsUpTo(Patterns, MaxAllowLen)

DenyLists == {<<>>, <<"a">>}

PermObjects ==
  {d \in UNION {[K -> AllowLists \cup DenyLists] : K \in SUBSET PermKeys} :
     /\ ("allow" \in DOMAIN d => d["allow"] \in AllowLists)
     /\ ("deny" \in DOMAIN d => d["deny"] \in DenyLists)}

FieldMaps == UNION {[K -> Values] : K \in SUBSET OtherKeys}

Docs == [fields : FieldMaps,
         permissions : {<<>>} \cup {<<d>> : d \in PermObjects}]

\* the example of the specification, section 8
SpecExample == << <<"a", "b", "a">>, <<"b", "c">> >>

ArgLists == SeqsUpTo(SeqsUpTo(ListItems, MaxListLen), MaxLists)
              \cup {SpecExample}

MdLines ==
  { <<42, 32, 96, 97, 96>>,               \* "* `a`"
    <<45, 32, 96, 98, 96>>,               \* "- `b`"
    <<32, 45, 9, 32, 96, 97, 96, 98, 32>>,\* " -<TAB> `a`b "
    <<42, 32, 96, 97, 32, 98, 96>>,       \* "* `a b`"
    <<42, 96, 97, 96>>,                   \* "*`a`"   no space
    <<42, 32, 96, 97>>,                   \* "* `a"   not closed
    <<42, 32, 96, 96>>,                   \* "* ``"   empty
    <<43, 32, 96, 97, 96>>,               \* "+ `a`"  other marker
    <<97, 32, 96, 97, 96>>,               \* "a `a`"  not a bullet
    <<160, 45, 8195, 96, 98, 96, 133>>,   \* U+00A0 "-" U+2003 "`b`" U+0085
    <<>> }                                \* empty line

MdTexts == SeqsUpTo(MdLines, MaxLines)

PatternLists == SeqsUpTo(Patterns, MaxPatterns)

SettingsPath(i) == "s" \o ToString(i) \o ".json"

SettingsPaths(n) == [i \in 1..n |-> SettingsPath(i)]

NoArgs == [files |-> <<>>, output |-> <<>>, compact |-> FALSE,
           no_backup |-> FALSE, force |-> FALSE]

InitCommon ==
  /\ fs0 = fs
  /\ args = NoArgs
  /\ settings_list = <<>>
  /\ heap = <<>>
  /\ merged = <<>>
  /\ emitted = <<>>
  /\ markdown_files = <<>>
  /\ sorted_files = <<>>
  /\ created_files = <<>>
  /\ idx = 0
  /\ stdout = <<>>
  /\ stderr = <<>>
  /\ exit_code = -1
  /\ runs = 0

\* a call merge_permission_lists(arg_lists)
InitDedupFn ==
  /\ mode = "dedup_fn"
  /\ pc = "call_dedup"
  /\ arg_lists \in ArgLists
  /\ fs = <<>>
  /\ unique_files = <<>>
  /\ patterns = <<>>
  /\ InitCommon

\* a call merge_settings_files(unique_files), every file a JSON document
InitMergeFn ==
  /\ mode = "merge_fn"
  /\ pc = "call_merge"
  /\ \E n \in 0..MaxDocs :
       /\ unique_files = SettingsPaths(n)
       /\ \E ds \in [1..n -> Docs] :
            fs = [p \in Range(SettingsPaths(n)) |->
                    JsonFile(ds[CHOOSE i \in 1..n : SettingsPath(i) = p])]
  /\ arg_lists = <<>>
  /\ patterns = <<>>
  /\ InitCommon

\* a call parse_markdown_file("gh-a.md")
InitExtractFn ==
  /\ mode = "extract_fn"
  /\ pc = "call_parse"
  /\ \E c \in {TextFile(t) : t \in MdTexts}
               \cup {Invalid, ReadOnly,
                     JsonFile([fields |-> [model |-> "v1"],
                               permissions |-> <<[allow |-> <<"a">>]>>])} :
       fs = [p \in {"gh-a.md"} |-> c]
  /\ unique_files = <<>>
  /\ arg_lists = <<>>
  /\ patterns = <<>>
  /\ InitCommon

\* a call create_permissions_json(patterns)
InitEmitFn ==
  /\ mode = "emit_fn"
  /\ pc = "call_create"
  /\ patterns \in PatternLists
  /\ fs = <<>>
  /\ unique_files = <<>>
  /\ arg_lists = <<>>
  /\ InitCommon

(***************************************************************************)
(* Function-level actions                                                  *)
(***************************************************************************)
\* merge_permission_lists(lists), lines 34-45
MergePermissionLists ==
  /\ mode = "dedup_fn"
  /\ pc = "call_dedup"
  /\ patterns' = merge_permission_lists(arg_lists)
  /\ pc' = "returned"
  /\ UNCHANGED <<mode, fs, fs0, args, unique_files, arg_lists, settings_list,
                 heap, merged, emitted, markdown_files, sorted_files, created_files, idx,
                 stdout, stderr, exit_code, runs>>

\* merge_settings_files(files), lines 48-77, every load succeeding
MergeSettingsFiles ==
  /\ mode \in {"merge_fn", "extract_fn", "emit_fn"}
  /\ pc = "call_merge"
  /\ IF unique_files = <<>>
       THEN /\ pc' = "raised"
            /\ UNCHANGED <<settings_list, heap, merged>>
       ELSE LET l == load_all(fs, unique_files, <<>>, <<>>)
                m == merge_loaded(l.settings_list, l.heap)
            IN /\ l.ok
               /\ settings_list' = l.settings_list
               /\ merged' = m.merged
               /\ heap' = m.heap
               /\ pc' = "returned"
  /\ UNCHANGED <<mode, fs, fs0, args, unique_files, arg_lists, patterns,
                 emitted, markdown_files, sorted_files, created_files, idx, stdout, stderr,
                 exit_code, runs>>

\* parse_markdown_file(filepath), lines 17-29
ParseMarkdownFile ==
  /\ mode = "extract_fn"
  /\ pc = "call_parse"
  /\ LET r == parse_markdown_file(fs, "gh-a.md") IN
       /\ r.ok
       /\ patterns' = r.patterns
  /\ pc' = "call_create"
  /\ UNCHANGED <<mode, fs, fs0, args, unique_files, arg_lists, settings_list,
                 heap, merged, emitted, markdown_files, sorted_files, created_files, idx,
                 stdout, stderr, exit_code, runs>>

\* create_permissions_json(patterns), lines 32-47
CreatePermissionsJson ==
  /\ mode \in {"extract_fn", "emit_fn"}
  /\ pc = "call_create"
  /\ emitted' = create_permissions_json(patterns)
  /\ pc' = "call_dump"
  /\ UNCHANGED <<mode, fs, fs0, args, unique_files, arg_lists, settings_list,
                 heap, merged, patterns, markdown_files, sorted_files, created_files, idx,
                 stdout, stderr, exit_code, runs>>

\* json.dump(permissions_data, f, indent=2), lines 59-63; the written file
\* is then the sole input of merge_settings_files
DumpJson ==
  /\ mode \in {"extract_fn", "emit_fn"}
  /\ pc = "call_dump"
  /\ LET json_filepath == splitext_root("gh-a.md") \o ".json" IN
       /\ fs' = WriteFile(fs, json_filepath, JsonText(emitted, "indent=2"))
       /\ unique_files' = <<json_filepath>>
  /\ pc' = "call_merge"
  /\ UNCHANGED <<mode, fs0, args, arg_lists, settings_list, heap, merged,
                 patterns, emitted, markdown_files, sorted_files, created_files, idx,
                 stdout, stderr, exit_code, runs>>

InitFn == InitDedupFn \/ InitMergeFn \/ InitExtractFn \/ InitEmitFn

NextFn ==
  \/ MergePermissionLists
  \/ MergeSettingsFiles
  \/ ParseMarkdownFile
  \/ CreatePermissionsJson
  \/ DumpJson

SpecFn == InitFn /\ [][NextFn]_vars

(***************************************************************************)
(* Output streams.  An entry is a printed message (its parts) or a printed *)
(* document.                                                               *)
(***************************************************************************)
Msg(parts) == [kind |-> "message", text |-> parts, doc |-> <<>>, fmt |-> ""]

DocOut(d, fmt) == [kind |-> "document", text |-> <<>>, doc |-> <<d>>, fmt |-> fmt]

\* Mutant: print(...) without file=sys.stderr.
merger_print_plain(streams, parts) ==
  [streams EXCEPT !.stdout = Append(@, Msg(parts))]

\* print(..., file=sys.stderr) of the merger
merger_print(streams, parts) ==
  [streams EXCEPT !.stderr = Append(@, Msg(parts))]

\* print(output), line 189
merger_print_output(streams, d, fmt) ==
  [streams EXCEPT !.stdout = Append(@, DocOut(d, fmt))]

\* print(...) of the converter
converter_print(streams, parts) ==
  [streams EXCEPT !.stdout = Append(@, Msg(parts))]

RECURSIVE print_all(_, _)
print_all(streams, msgs) ==
  IF msgs = <<>> THEN streams
  ELSE print_all(merger_print(streams, Head(msgs)), Tail(msgs))

NoOutput == [stdout |-> <<>>, stderr |-> <<>>]

(***************************************************************************)
(* Globbing.  A pattern is prefix*suffix; the order in which a directory   *)
(* lists its entries is not specified, `order` is the one it happens to    *)
(* use.                                                                    *)
(***************************************************************************)
RECURSIVE find_star(_, _)
find_star(s, i) ==
  IF i > Len(s) THEN 0
  ELSE IF Char(s, i) = "*" THEN i ELSE find_star(s, i + 1)

\* '*' in str(file_pattern)
HasStar(s) == find_star(s, 1) > 0

GlobMatch(name, pattern) ==
  LET star == find_star(pattern, 1)
      pre  == SubSeq(pattern, 1, star - 1)
      suf  == SubSeq(pattern, star + 1, Len(pattern))
  IN /\ Len(name) >= Len(pre) + Len(suf)
     /\ StartsWith(name, pre)
     /\ EndsWith(name, suf)

GlobSet(f, pattern) ==
  {p \in DOMAIN f : Exists(f, p) /\ GlobMatch(p, pattern)}

Orderings(S) == {s \in [1..Cardinality(S) -> S] : Range(s) = S}

\* list(Path('.').glob(pattern)) / glob.glob(pattern)
Glob(f, pattern, order) ==
  SelectSeq(order, LAMBDA p : p \in GlobSet(f, pattern))

(***************************************************************************)
(* claude_settings_merger.main                                             *)
(***************************************************************************)
\* lines 135-144: the expanded file list and the warnings printed
RECURSIVE expand_files(_, _, _)
expand_files(f, files, order) ==
  IF files = <<>> THEN [files |-> <<>>, warnings |-> <<>>]
  ELSE LET file_pattern == Head(files)
           rest == expand_files(f, Tail(files), order)
       IN IF HasStar(file_pattern)
            THEN LET matching_files == Glob(f, file_pattern, order) IN
                 [files |-> matching_files \o rest.files,
                  warnings |->
                    (IF matching_files = <<>>
                       THEN << <<"Warning: No files match pattern",
                                 file_pattern>> >>
                       ELSE <<>>) \o rest.warnings]
            ELSE [files |-> <<file_pattern>> \o rest.files,
                  warnings |-> rest.warnings]

\* lines 151-156
RECURSIVE dedupe_files(_, _, _)
dedupe_files(expanded, seen, unique) ==
  IF expanded = <<>> THEN unique
  ELSE IF Head(expanded) \notin seen
    THEN dedupe_files(Tail(expanded), seen \cup {Head(expanded)},
                      Append(unique, Head(expanded)))
    ELSE dedupe_files(Tail(expanded), seen, unique)

\* Mutant: the backup name replaces the suffix instead of extending it and
\* is used whether or not it exists.
choose_backup_overwrite(f, out) == with_suffix(out, ".bak")

\* lines 174-180: the first idx >= 1 whose candidate does not exist
RECURSIVE first_free_candidate(_, _, _)
first_free_candidate(f, out, i) ==
  LET candidate == with_suffix(out, path_suffix(out) \o ".bak." \o ToString(i))
  IN IF ~Exists(f, candidate) THEN candidate
     ELSE first_free_candidate(f, out, i + 1)

\* lines 172-180: backup_path
choose_backup(f, out) ==
  LET backup_path == with_suffix(out, path_suffix(out) \o ".bak") IN
  IF Exists(f, backup_path) THEN first_free_candidate(f, out, 1)
  ELSE backup_path

DocA == [fields |-> [model |-> "v1"],
         permissions |-> <<[allow |-> <<"a">>]>>]

DocB == [fields |-> <<>>,
         permissions |-> <<[allow |-> <<"a", "b">>, deny |-> <<"a">>]>>]

DocO == [fields |-> [model |-> "v2"],
         permissions |-> <<[allow |-> <<"c">>, deny |-> <<>>]>>]

OldBackup ==
  [kind |-> "invalid", doc |-> <<>>, lines |-> << <<111, 108, 100>> >>,
   fmt |-> "old", perm |-> "rw"]

\* <path>.bak, <path>.bak.1, <path>.bak.2, ...
BakName(out, k) ==
  IF k = 0 THEN out \o ".bak" ELSE out \o ".bak." \o ToString(k)

FileArgLists ==
  { <<"a.json">>, <<"a.json", "b.json", "a.json">>, <<"b.json", "*.json">>,
    <<"x*.json">>, <<"x*.json", "b.json">> }

ArgChoices ==
  {a \in [files : FileArgLists, output : {<<>>, <<"out.json">>},
          compact : BOOLEAN, no_backup : BOOLEAN, force : BOOLEAN] :
     /\ ~(a.no_backup /\ a.force)
     /\ (a.no_backup \/ a.force) => (a.output # <<>> /\ ~a.compact)}

InitMergerCli ==
  /\ mode = "merger_cli"
  /\ pc = "idle"
  /\ \E a \in {Missing, Invalid, JsonFile(DocA)},
        b \in {Missing, JsonFile(DocB)},
        o \in {Missing, JsonText(DocO, "indent=2+newline"), ReadOnly,
               Unreadable},
        baks \in [0..MaxBak -> {Missing, OldBackup}] :
       fs = [p \in {"a.json", "b.json", "out.json"}
                     \cup {BakName("out.json", k) : k \in 0..MaxBak} |->
               IF p = "a.json" THEN a
               ELSE IF p = "b.json" THEN b
               ELSE IF p = "out.json" THEN o
               ELSE baks[CHOOSE k \in 0..MaxBak : BakName("out.json", k) = p]]
  /\ unique_files = <<>>
  /\ arg_lists = <<>>
  /\ patterns = <<>>
  /\ InitCommon

\* main, lines 132-159: parse the arguments, expand, dedupe, announce
MainStart ==
  /\ mode = "merger_cli"
  /\ pc = "idle"
  /\ runs < MaxRuns
  /\ \E a \in ArgChoices :
     \E order \in Orderings(UNION {GlobSet(fs, a.files[i]) :
                                        i \in {j \in DOMAIN a.files :
                                                 HasStar(a.files[j])}}) :
       LET e == expand_files(fs, a.files, order)
           warned == print_all(NoOutput, e.warnings)
       IN /\ args' = a
          /\ IF e.files = <<>>
               THEN LET out == merger_print(warned,
                                            <<"Error: No files to merge">>)
                    IN /\ unique_files' = <<>>
                       /\ stdout' = out.stdout
                       /\ stderr' = out.stderr
                       /\ exit_code' = 1
                       /\ pc' = "exited"
               ELSE LET u == dedupe_files(e.files, {}, <<>>)
                        out == merger_print(warned,
                                 <<"Merging", ToString(Len(u)), "files...">>)
                    IN /\ unique_files' = u
                       /\ stdout' = out.stdout
                       /\ stderr' = out.stderr
                       /\ exit_code' = -1
                       /\ pc' = "merging"
  /\ runs' = runs + 1
  /\ fs0' = fs
  /\ settings_list' = <<>>
  /\ heap' = <<>>
  /\ merged' = <<>>
  /\ UNCHANGED <<mode, fs, arg_lists, patterns, emitted, markdown_files, sorted_files,
                 created_files, idx>>

\* Mutant: a file that fails to load is skipped and the merge goes on.
RECURSIVE load_all_skip_failed(_, _, _, _)
load_all_skip_failed(f, files, sl, hp) ==
  IF files = <<>>
    THEN [ok |-> sl # <<>>, err |-> <<"Error", "nothing loaded">>,
          settings_list |-> sl, heap |-> hp]
  ELSE LET r == load_json_file(f, Head(files)) IN
       IF ~r.ok THEN load_all_skip_failed(f, Tail(files), sl, hp)
       ELSE LET d == r.doc[1] IN
            IF d.permissions = <<>>
              THEN load_all_skip_failed(f, Tail(files),
                     Append(sl, [fields |-> d.fields, permissions |-> <<>>]),
                     hp)
              ELSE load_all_skip_failed(f, Tail(files),
                     Append(sl, [fields |-> d.fields,
                                 permissions |-> <<Len(hp) + 1>>]),
                     Append(hp, d.permissions[1]))

\* Mutant of load_settings: failing files are left out.
load_settings_skip_failed(f, files) ==
  load_all_skip_failed(f, files, <<>>, <<>>)

\* line 54 as main runs it: the loads, the first failure ending the process
load_settings(f, files) == load_all(f, files, <<>>, <<>>)

\* main, line 160: merge_settings_files(unique_files)
MainMerge ==
  /\ mode = "merger_cli"
  /\ pc = "merging"
  /\ LET l == load_settings(fs, unique_files) IN
       IF ~l.ok
         THEN LET out == merger_print([stdout |-> stdout, stderr |-> stderr],
                                      l.err)
              IN /\ stdout' = out.stdout
                 /\ stderr' = out.stderr
                 /\ exit_code' = 1
                 /\ pc' = "exited"
                 /\ UNCHANGED <<settings_list, heap, merged>>
         ELSE LET m == merge_loaded(l.settings_list, l.heap) IN
              /\ settings_list' = l.settings_list
              /\ merged' = m.merged
              /\ heap' = m.heap
              /\ pc' = "output"
              /\ UNCHANGED <<stdout, stderr, exit_code>>
  /\ UNCHANGED <<mode, fs, fs0, args, unique_files, arg_lists, patterns,
                 emitted, markdown_files, sorted_files, created_files, idx, runs>>

\* an exception nothing catches: the interpreter prints the traceback on
\* the error stream and the process ends with status 1
uncaught(streams, err, path) ==
  [streams EXCEPT !.stderr = Append(@, Msg(<<"Traceback", err, path>>))]

\* lines 169-187: [ok, fs, streams] after the backup and the write; ok is
\* FALSE when shutil.copy2 (line 181) or open(args.output, 'w') (line 184)
\* raised
write_output(f, streams, a, d, fmt) ==
  LET out == a.output[1]
      backup == Exists(f, out) /\ ~(a.no_backup \/ a.force)
      backup_path == choose_backup(f, out)
      f1 == IF backup THEN CopyFile(f, out, backup_path) ELSE f
      s1 == IF backup
              THEN merger_print(streams, <<"Created backup", backup_path>>)
              ELSE streams
  IN IF backup /\ ~Readable(f, out)
       THEN [ok |-> FALSE, fs |-> f,
             streams |-> uncaught(streams, "PermissionError", out)]
     ELSE IF ~Writable(f1, out)
       THEN [ok |-> FALSE, fs |-> f1,
             streams |-> uncaught(s1, "PermissionError", out)]
     ELSE [ok |-> TRUE,
           fs |-> WriteFile(f1, out, JsonText(d, fmt \o "+newline")),
           streams |-> merger_print(s1,
                         <<"Successfully wrote merged settings to", out>>)]

\* main, lines 162-189: serialize, back up, write or print
MainOutput ==
  /\ mode = "merger_cli"
  /\ pc = "output"
  /\ LET d == Deref(heap, merged)
         fmt == IF args.compact THEN "compact" ELSE "indent=2"
         streams == [stdout |-> stdout, stderr |-> stderr]
     IN IF args.output # <<>>
          THEN LET w == write_output(fs, streams, args, d, fmt) IN
               /\ fs' = w.fs
               /\ stdout' = w.streams.stdout
               /\ stderr' = w.streams.stderr
               /\ exit_code' = IF w.ok THEN 0 ELSE 1
          ELSE LET out == merger_print_output(streams, d, fmt) IN
               /\ fs' = fs
               /\ stdout' = out.stdout
               /\ stderr' = out.stderr
               /\ exit_code' = 0
  /\ pc' = "exited"
  /\ UNCHANGED <<mode, fs0, args, unique_files, arg_lists, settings_list,
                 heap, merged, patterns, emitted, markdown_files, sorted_files,
                 created_files, idx, runs>>

\* lines 192-193: the process ends; nothing but the file system is left
MainExit ==
  /\ mode = "merger_cli"
  /\ pc = "exited"
  /\ pc' = "idle"
  /\ fs0' = fs
  /\ args' = NoArgs
  /\ unique_files' = <<>>
  /\ settings_list' = <<>>
  /\ heap' = <<>>
  /\ merged' = <<>>
  /\ stdout' = <<>>
  /\ stderr' = <<>>
  /\ exit_code' = -1
  /\ UNCHANGED <<mode, fs, arg_lists, patterns, emitted, markdown_files, sorted_files,
                 created_files, idx, runs>>

NextMergerCli == MainStart \/ MainMerge \/ MainOutput \/ MainExit

SpecMergerCli == InitMergerCli /\ [][NextMergerCli]_vars

(***************************************************************************)
(* md_to_json_converter.main                                               *)
(***************************************************************************)
\* ord(c) for the characters of the file names used here
ord(c) ==
  LET low == "abcdefghijklmnopqrstuvwxyz"
      sym == "-./0123456789"
  IN IF \E i \in 1..Len(low) : Char(low, i) = c
       THEN 96 + (CHOOSE i \in 1..Len(low) : Char(low, i) = c)
       ELSE 44 + (CHOOSE i \in 1..Len(sym) : Char(sym, i) = c)

\* s < t on str: by code point, a proper prefix first
RECURSIVE str_less(_, _)
str_less(s, t) ==
  IF t = "" THEN FALSE
  ELSE IF s = "" THEN TRUE
  ELSE IF Char(s, 1) = Char(t, 1)
    THEN str_less(SubSeq(s, 2, Len(s)), SubSeq(t, 2, Len(t)))
    ELSE ord(Char(s, 1)) < ord(Char(t, 1))

RECURSIVE insert_sorted(_, _)
insert_sorted(x, srt) ==
  IF srt = <<>> THEN <<x>>
  ELSE IF str_less(x, Head(srt)) THEN <<x>> \o srt
  ELSE <<Head(srt)>> \o insert_sorted(x, Tail(srt))

\* sorted(markdown_files), line 83
RECURSIVE sorted(_)
sorted(files) ==
  IF files = <<>> THEN <<>>
  ELSE insert_sorted(Head(files), sorted(Tail(files)))

(***************************************************************************)
(* process_file(markdown_filepath), lines 50-66: the exception it raises   *)
(* (ok = FALSE) or the file system and output after it returned.           *)
(***************************************************************************)
process_file(f, streams, markdown_filepath) ==
  LET parsed == parse_markdown_file(f, markdown_filepath)
      permissions_data == create_permissions_json(parsed.patterns)
      json_filepath == splitext_root(markdown_filepath) \o ".json"
  IN IF ~parsed.ok
       THEN [ok |-> FALSE, err |-> parsed.err, fs |-> f,
             streams |-> streams, json_filepath |-> ""]
     ELSE IF ~Writable(f, json_filepath)
       THEN [ok |-> FALSE, err |-> "Permission denied", fs |-> f,
             streams |-> streams, json_filepath |-> ""]
     ELSE [ok |-> TRUE, err |-> "",
           fs |-> WriteFile(f, json_filepath,
                            JsonText(permissions_data, "indent=2")),
           streams |-> converter_print(streams,
                         <<"Created", json_filepath, "with",
                           ToString(Len(parsed.patterns)), "patterns">>),
           json_filepath |-> json_filepath]

TextA == << <<42, 32, 96, 97, 96>>, <<97, 32, 96, 97, 96>>,
            <<42, 32, 96, 97, 96>>, <<45, 32, 96, 98, 96>> >>

TextB == << <<45, 32, 96, 98, 96>> >>

OldJson == JsonFile([fields |-> <<>>,
                     permissions |-> <<[allow |-> <<>>, deny |-> <<>>]>>])

MdNames == {"gh-b.md", "gh-a.md", "gh-ab.md"}

InitBatchCli ==
  /\ mode = "batch_cli"
  /\ pc = "idle"
  /\ \E md \in [MdNames -> {Missing, Unreadable, ReadOnly, TextFile(TextA),
                            TextFile(TextB)}],
        js \in [MdNames -> {Missing, ReadOnly, OldJson}] :
       fs = [p \in MdNames \cup {splitext_root(n) \o ".json" : n \in MdNames}
                     \cup {"notes.md"} |->
               IF p \in MdNames THEN md[p]
               ELSE IF p = "notes.md" THEN TextFile(TextB)
               ELSE js[CHOOSE n \in MdNames :
                         splitext_root(n) \o ".json" = p]]
  /\ unique_files = <<>>
  /\ arg_lists = <<>>
  /\ patterns = <<>>
  /\ InitCommon

\* main, lines 72-79: discover the documents
BatchStartGuard == mode = "batch_cli" /\ pc = "idle"

BatchProcessGuard ==
  mode = "batch_cli" /\ pc = "loop" /\ idx <= Len(sorted_files)

BatchReportGuard ==
  mode = "batch_cli" /\ pc = "loop" /\ idx > Len(sorted_files)

BatchStart ==
  /\ BatchStartGuard
  /\ \E order \in Orderings(GlobSet(fs, "gh-*.md")) :
       /\ markdown_files' = Glob(fs, "gh-*.md", order)
       /\ sorted_files' = sorted(Glob(fs, "gh-*.md", order))
       /\ IF order = <<>>
            THEN /\ stdout' = converter_print(NoOutput,
                     <<"No gh-*.md files found in the current directory">>
                     ).stdout
                 /\ pc' = "returned"
                 /\ exit_code' = 0
            ELSE /\ stdout' = converter_print(converter_print(NoOutput,
                     <<"Found", ToString(Len(order)),
                       "markdown files to process">>),
                     <<"-----">>).stdout
                 /\ pc' = "loop"
                 /\ exit_code' = -1
  /\ idx' = 1
  /\ created_files' = <<>>
  /\ UNCHANGED <<mode, fs, fs0, args, unique_files, arg_lists,
                 settings_list, heap, merged, patterns, emitted, stderr,
                 runs>>

\* Mutant: no try/except around process_file, the exception ends the run.
batch_iteration_unguarded(f, streams, created, md_file) ==
  LET r == process_file(f, streams, md_file) IN
  IF r.ok
    THEN [fs |-> r.fs, streams |-> r.streams,
          created_files |-> Append(created, r.json_filepath),
          pc |-> "loop", exit_code |-> -1]
    ELSE [fs |-> f,
          streams |-> [streams EXCEPT
                         !.stderr = Append(@, Msg(<<"Traceback", r.err>>))],
          created_files |-> created, pc |-> "returned", exit_code |-> 1]

\* lines 84-88: try process_file, on an exception print it and go on
batch_iteration(f, streams, created, md_file) ==
  LET r == process_file(f, streams, md_file) IN
  IF r.ok
    THEN [fs |-> r.fs, streams |-> r.streams,
          created_files |-> Append(created, r.json_filepath),
          pc |-> "loop", exit_code |-> -1]
    ELSE [fs |-> f,
          streams |-> converter_print(streams,
                        <<"Error processing", md_file, r.err>>),
          created_files |-> created, pc |-> "loop", exit_code |-> -1]

\* main, lines 83-88: one iteration of the loop
BatchProcess ==
  /\ BatchProcessGuard
  /\ LET n == batch_iteration(fs, [stdout |-> stdout, stderr |-> stderr],
                              created_files, sorted_files[idx])
     IN /\ fs' = n.fs
        /\ stdout' = n.streams.stdout
        /\ stderr' = n.streams.stderr
        /\ created_files' = n.created_files
        /\ pc' = n.pc
        /\ exit_code' = n.exit_code
  /\ idx' = idx + 1
  /\ UNCHANGED <<mode, fs0, args, unique_files, arg_lists, settings_list,
                 heap, merged, patterns, emitted, markdown_files, sorted_files, runs>>

\* main, lines 90-91: the final report
BatchReport ==
  /\ BatchReportGuard
  /\ stdout' = converter_print(
                 converter_print([stdout |-> stdout, stderr |-> stderr],
                                 <<"-----">>),
                 <<"Successfully created", ToString(Len(created_files)),
                   "JSON files">>).stdout
  /\ pc' = "reported"
  /\ exit_code' = 0
  /\ UNCHANGED <<mode, fs, fs0, args, unique_files, arg_lists,
                 settings_list, heap, merged, patterns, emitted,
                 markdown_files, sorted_files, created_files, idx, stderr, runs>>

NextBatchCli == BatchStart \/ BatchProcess \/ BatchReport

SpecBatchCli == InitBatchCli /\ [][NextBatchCli]_vars

\* both utilities
InitCli == InitMergerCli \/ InitBatchCli

NextCli ==
  \/ MainStart
  \/ MainMerge
  \/ MainOutput
  \/ MainExit
  \/ BatchStart
  \/ BatchProcess
  \/ BatchReport

SpecCli == InitCli /\ [][NextCli]_vars

Init == InitFn \/ InitCli

Next == NextFn \/ NextCli

Spec == Init /\ [][Next]_vars

(***************************************************************************)
(* Verification conditions                                                 *)
(***************************************************************************)
\* the document stored in the i-th input file
InputDoc(i) == fs[unique_files[i]].doc[1]

\* the value of the returned document
Result == Deref(heap, merged)

RECURSIVE Flatten(_)
Flatten(ls) == IF ls = <<>> THEN <<>> ELSE Head(ls) \o Flatten(Tail(ls))

FirstPos(x, s) == CHOOSE i \in DOMAIN s : s[i] = x /\ \A j \in 1..(i - 1) : s[j] # x

\* r holds every string of ls once, ordered by first occurrence
IsDedupOf(r, ls) ==
  LET flat == Flatten(ls) IN
  /\ Range(r) = Range(flat)
  /\ NoDuplicates(r)
  /\ \A i, j \in DOMAIN r : i < j => FirstPos(r[i], flat) < FirstPos(r[j], flat)

\* the k-th smallest element of a set of numbers
Nth(I, k) == CHOOSE i \in I : Cardinality({j \in I : j < i}) = k - 1

Defines(d, key) == d.permissions # <<>> /\ key \in DOMAIN d.permissions[1]

\* the lists named `key` of the input documents that define one, in order
DefinedLists(key) ==
  LET I == {i \in DOMAIN unique_files : Defines(InputDoc(i), key)}
  IN [k \in 1..Cardinality(I) |-> InputDoc(Nth(I, k)).permissions[1][key]]

\* C1: the returned document's permissions.allow (permissions.deny) is the
\* order-preserving deduplication of the allow (deny) lists of the input
\* documents that define one, in input order; documents without the field
\* contribute nothing.
C1_MergedLists ==
  (mode = "merge_fn" /\ pc = "returned") =>
     /\ Result.permissions # <<>>
     /\ DOMAIN Result.permissions[1] = PermKeys
     /\ IsDedupOf(Result.permissions[1]["allow"], DefinedLists("allow"))
     /\ IsDedupOf(Result.permissions[1]["deny"], DefinedLists("deny"))

\* C1 witness: three documents' worth of cases in two: the first has no
\* permissions field, the second defines allow only; the result carries the
\* second's allow list and an empty deny list.
C1_Witness ==
  /\ mode = "merge_fn" /\ pc = "returned"
  /\ Len(unique_files) = 2
  /\ InputDoc(1).permissions = <<>>
  /\ Defines(InputDoc(2), "allow") /\ ~Defines(InputDoc(2), "deny")
  /\ Result.permissions[1]["allow"] = <<"b">>
  /\ Result.permissions[1]["deny"] = <<>>

\* C2: merge_permission_lists returns each distinct input string exactly
\* once, nothing else, ordered by first occurrence reading the lists in
\* argument order and each list front to back.
C2_Dedup ==
  (mode = "dedup_fn" /\ pc = "returned") => IsDedupOf(patterns, arg_lists)

\* C2 witness: the example [["a","b","a"],["b","c"]] -> ["a","b","c"].
C2_Witness ==
  /\ mode = "dedup_fn" /\ pc = "returned"
  /\ arg_lists = SpecExample
  /\ patterns = <<"a", "b", "c">>

\* C3: every top-level field of the result other than "permissions" has the
\* key and value of the first input document.
C3_FirstFieldsOnly ==
  (mode = "merge_fn" /\ pc = "returned") => merged.fields = InputDoc(1).fields

\* C3 witness: a later document gives "model" another value.
C3_Witness ==
  /\ mode = "merge_fn" /\ pc = "returned"
  /\ Len(unique_files) = 2
  /\ "model" \in DOMAIN InputDoc(1).fields
  /\ "model" \in DOMAIN InputDoc(2).fields
  /\ InputDoc(1).fields["model"] # InputDoc(2).fields["model"]
  /\ merged.fields["model"] = InputDoc(1).fields["model"]

\* C4: after merge_settings_files returns, every loaded input document has
\* the value it had when it was loaded.
C4_InputsUntouched ==
  (mode = "merge_fn" /\ pc = "returned") =>
     \A i \in DOMAIN settings_list :
        Deref(heap, settings_list[i]) = InputDoc(i)

(***************************************************************************)
(* The bullet pattern, stated on the line as read: leading white space, a  *)
(* marker, white space, a backtick, a non-empty token without backtick, a  *)
(* backtick.                                                               *)
(***************************************************************************)
TokensOf(s) ==
  {SubSeq(s, b[2] + 1, b[3] - 1) :
     b \in {c \in (DOMAIN s) \X (DOMAIN s) \X (DOMAIN s) :
              /\ \A k \in 1..(c[1] - 1) : s[k] \in WhiteSpace
              /\ s[c[1]] \in {42, 45}
              /\ c[2] >= c[1] + 2
              /\ \A k \in (c[1] + 1)..(c[2] - 1) : s[k] \in WhiteSpace
              /\ s[c[2]] = 96
              /\ c[3] >= c[2] + 2
              /\ \A k \in (c[2] + 1)..(c[3] - 1) : s[k] # 96
              /\ s[c[3]] = 96}}

ExpectedTokens(ls) ==
  LET I == {i \in DOMAIN ls : TokensOf(ls[i]) # {}}
  IN [k \in 1..Cardinality(I) |-> CHOOSE t \in TokensOf(ls[Nth(I, k)]) : TRUE]

MdText == text_lines(fs["gh-a.md"])

Parsed == mode = "extract_fn" /\ pc # "call_parse"

Emitted == mode = "extract_fn" /\ pc \notin {"call_parse", "call_create"}

\* C7 as claimed: parse_markdown_file returns the captured tokens of the
\* matching lines in line order, deduplicated (first occurrence kept).
C7_ParseDeduplicates ==
  Parsed => IsDedupOf(patterns, <<ExpectedTokens(MdText)>>)

\* C7 amended: parse_markdown_file returns the captured tokens of the
\* matching lines in line order, duplicates included; the deduplication is
\* done by create_permissions_json, whose permissions.allow keeps the first
\* occurrence of each token.
C7_ParseThenEmitDeduplicates ==
  /\ Parsed => patterns = ExpectedTokens(MdText)
  /\ Emitted =>
       /\ IsDedupOf(emitted.permissions[1]["allow"], <<ExpectedTokens(MdText)>>)
       /\ emitted.permissions[1]["deny"] = <<>>

\* C7 witness: two identical bullet lines give two patterns and one entry.
C7_Witness ==
  /\ Emitted
  /\ MdText = << <<42, 32, 96, 97, 96>>, <<42, 32, 96, 97, 96>> >>
  /\ patterns = << <<97>>, <<97>> >>
  /\ emitted.permissions[1]["allow"] = << <<97>> >>

\* C8: for unique patterns, the emitted document merged as the sole input
\* gives a document equal to the emitted one: the same allow list, an empty
\* deny list, no other field.
C8_RoundTrip ==
  (mode \in {"emit_fn", "extract_fn"} /\ pc = "returned"
     /\ NoDuplicates(patterns)) =>
     /\ Result = emitted
     /\ DOMAIN Result.fields = {}
     /\ DOMAIN Result.permissions[1] = PermKeys
     /\ Result.permissions[1]["allow"] = patterns
     /\ Result.permissions[1]["deny"] = <<>>

\* C8 witness: the unique list ["b","a"] emitted and merged.
C8_Witness ==
  /\ mode = "emit_fn" /\ pc = "returned"
  /\ patterns = <<"b", "a">>
  /\ Result.permissions[1]["allow"] = <<"b", "a">>

(***************************************************************************)
(* The merger as a program                                                 *)
(***************************************************************************)
Loadable(f, p) == Readable(f, p) /\ f[p].kind = "json"

\* the run has resolved its inputs and one of them cannot be loaded
FailingRun ==
  /\ mode = "merger_cli"
  /\ pc \in {"merging", "output", "exited"}
  /\ unique_files # <<>>
  /\ \E i \in DOMAIN unique_files : ~Loadable(fs0, unique_files[i])

FirstFailing ==
  unique_files[CHOOSE i \in DOMAIN unique_files :
                 /\ ~Loadable(fs0, unique_files[i])
                 /\ \A j \in 1..(i - 1) : Loadable(fs0, unique_files[j])]

LoadErrors ==
  {"Error: File not found", "Error: Invalid JSON in", "Error reading"}

\* C5: a run with a missing or unparsable resolved input stops at the first
\* failing load with exit code 1 and a message on the error stream; the
\* file system stays as it was, whatever loaded before the failure.
C5_LoadFailureHalts ==
  FailingRun =>
     /\ pc # "output"
     /\ fs = fs0
     /\ stdout = <<>>
     /\ pc = "exited" =>
          /\ exit_code = 1
          /\ stderr # <<>>
          /\ stderr[Len(stderr)].kind = "message"
          /\ stderr[Len(stderr)].text[1] \in LoadErrors
          /\ stderr[Len(stderr)].text[2] = FirstFailing

\* C5 witness: a.json loads, b.json is missing, the output file exists.
C5_Witness ==
  /\ FailingRun /\ pc = "exited" /\ exit_code = 1
  /\ unique_files = <<"b.json", "a.json", "out.json">>
  /\ Loadable(fs0, "b.json") /\ ~Loadable(fs0, "a.json")
  /\ args.output = <<"out.json">>
  /\ fs = fs0

\* the run wrote an output file that existed before
WroteExisting ==
  /\ mode = "merger_cli" /\ pc = "exited" /\ exit_code = 0
  /\ args.output # <<>>
  /\ Exists(fs0, args.output[1])

\* the first name of <path>.bak, <path>.bak.1, ... that does not exist
FirstFreeBak(f, out) ==
  BakName(out, CHOOSE k \in 0..Cardinality(DOMAIN f) :
                 /\ ~Exists(f, BakName(out, k))
                 /\ \A j \in 0..(k - 1) : Exists(f, BakName(out, j)))

\* C6: with backups enabled a run that overwrites an existing output copies
\* its previous content to the first free name of <path>.bak, <path>.bak.1,
\* ... and leaves every other file as it was; with --no-backup or --force
\* no backup file is created.  No run, whether it writes or fails, changes
\* a backup file that existed before it.
C6_BackupNaming ==
  /\ WroteExisting =>
       LET out == args.output[1]
           b == FirstFreeBak(fs0, out)
       IN /\ fs[out].kind = "json" /\ fs[out].doc = <<Result>>
          /\ IF ~(args.no_backup \/ args.force)
               THEN /\ DOMAIN fs = DOMAIN fs0 \cup {b}
                    /\ fs[b] = fs0[out]
                    /\ \A p \in DOMAIN fs0 \ {out, b} : fs[p] = fs0[p]
               ELSE /\ DOMAIN fs = DOMAIN fs0
                    /\ \A p \in DOMAIN fs0 \ {out} : fs[p] = fs0[p]
  /\ (mode = "merger_cli" /\ pc \in {"merging", "output", "exited"}) =>
       \A k \in 0..Cardinality(DOMAIN fs0) :
          Exists(fs0, BakName("out.json", k)) =>
             fs[BakName("out.json", k)] = fs0[BakName("out.json", k)]

\* C6 witness: the second run finds out.json.bak, made by the first, and
\* copies the first run's output to out.json.bak.1.
C6_Witness ==
  /\ WroteExisting /\ runs = 2
  /\ ~(args.no_backup \/ args.force)
  /\ fs0["out.json.bak"].kind = "json"
  /\ ~Exists(fs0, "out.json.bak.1")
  /\ fs["out.json.bak.1"] = fs0["out.json"]
  /\ fs["out.json.bak"] = fs0["out.json.bak"]
  /\ fs["out.json.bak"] # fs["out.json.bak.1"]

(***************************************************************************)
(* The batch converter as a program                                        *)
(***************************************************************************)
Discovered == {n \in MdNames : Exists(fs0, n)}

JsonOf(n) ==
  CASE n = "gh-a.md" -> "gh-a.json"
    [] n = "gh-ab.md" -> "gh-ab.json"
    [] n = "gh-b.md" -> "gh-b.json"

Fails(n) == ~Readable(fs0, n) \/ ~Writable(fs0, JsonOf(n))

ExpectedOrder ==
  SelectSeq(<<"gh-a.md", "gh-ab.md", "gh-b.md">>, LAMBDA n : n \in Discovered)

Finished == pc \in {"returned", "reported"}

\* the run went through every discovered document in name order, wrote the
\* output of each one that did not fail, and ended with the count of those
BatchReported ==
  /\ pc = "reported"
  /\ Len(stdout) = Len(ExpectedOrder) + 4
  /\ \A i \in DOMAIN ExpectedOrder :
       LET n == ExpectedOrder[i] IN
       IF Fails(n)
         THEN /\ stdout[i + 2].text[1] = "Error processing"
              /\ stdout[i + 2].text[2] = n
              /\ fs[JsonOf(n)] = fs0[JsonOf(n)]
         ELSE /\ stdout[i + 2].text[1] = "Created"
              /\ stdout[i + 2].text[2] = JsonOf(n)
              /\ fs[JsonOf(n)].kind = "json"
              /\ IsDedupOf(fs[JsonOf(n)].doc[1].permissions[1]["allow"],
                           <<ExpectedTokens(text_lines(fs0[n]))>>)
  /\ stdout[Len(stdout)].text[1] = "Successfully created"
  /\ stdout[Len(stdout)].text[2] =
       ToString(Cardinality({n \in Discovered : ~Fails(n)}))

\* C9 as claimed: for every set of discovered documents and every failing
\* subset, the run goes on to the final report, and the reported count is
\* the number of documents processed without error.
C9_EveryRunReports ==
  (mode = "batch_cli" /\ Finished) => BatchReported

\* C9 amended: the same for every non-empty set of discovered documents;
\* when no document is discovered the run prints that none was found and
\* returns without a success count.
\* (a run that has not finished can take its next step: it is before the
\* discovery, inside the loop, or at the report)
C9_NonEmptyRunReports ==
  mode = "batch_cli" =>
     /\ (Finished /\ Discovered # {}) => BatchReported
     /\ (Finished /\ Discovered = {}) =>
          /\ pc = "returned"
          /\ Len(stdout) = 1
          /\ stdout[1].text[1] # "Successfully created"
          /\ fs = fs0
     /\ ~Finished => (BatchStartGuard \/ BatchProcessGuard \/ BatchReportGuard)

\* C9 witness: three documents listed out of order, the first in name
\* order fails, the other two are written, the count is 2.
C9_Witness ==
  /\ mode = "batch_cli" /\ pc = "reported"
  /\ markdown_files = <<"gh-b.md", "gh-ab.md", "gh-a.md">>
  /\ Fails("gh-a.md") /\ ~Fails("gh-ab.md") /\ ~Fails("gh-b.md")
  /\ created_files = <<"gh-ab.json", "gh-b.json">>
  /\ stdout[Len(stdout)].text[2] = "2"

(***************************************************************************)
(* Streams                                                                 *)
(***************************************************************************)
OnlyMessages(stream) == \A i \in DOMAIN stream : stream[i].kind = "message"

OnlyDocuments(stream) == \A i \in DOMAIN stream : stream[i].kind = "document"

\* C10 as claimed: in every run of either utility no message is written to
\* the primary output stream, which receives only the produced document
\* and only when the merger runs without an output path.
C10_MessagesOnStderr ==
  mode \in {"merger_cli", "batch_cli"} =>
     /\ OnlyMessages(stderr)
     /\ OnlyDocuments(stdout)
     /\ stdout # <<>> => (mode = "merger_cli" /\ args.output = <<>>)

\* C10 amended: that holds in every run of the merger; the converter writes
\* all its progress and error messages to the primary output stream and
\* nothing to the error stream.
C10_MergerMessagesOnStderr ==
  /\ mode = "merger_cli" =>
       /\ OnlyMessages(stderr)
       /\ OnlyDocuments(stdout)
       /\ pc \in {"merging", "output", "exited"} => stderr # <<>>
       /\ stdout # <<>> =>
            /\ args.output = <<>>
            /\ exit_code = 0
            /\ stdout = <<DocOut(Result, stdout[1].fmt)>>
  /\ mode = "batch_cli" =>
       /\ stderr = <<>>
       /\ OnlyMessages(stdout)
       /\ pc # "idle" => stdout # <<>>

\* C10 witness: a merger run without output path printed the document on
\* stdout and its progress message on stderr.
C10_Witness ==
  /\ mode = "merger_cli" /\ pc = "exited" /\ exit_code = 0
  /\ args.output = <<>>
  /\ Len(stdout) = 1 /\ stdout[1].kind = "document"
  /\ stderr # <<>> /\ stderr[1].text[1] = "Merging"

====
